---- MODULE Spec2Model ----
(***************************************************************************)
(* Model of Tools/msg/generate_msg_docs.py: the uORB .msg documentation   *)
(* generator.  A run parses each message file line by line                 *)
(* (UORBMessage.parseFile), post-processes the header comment block,       *)
(* associates constants with enums by name prefix, and renders the         *)
(* message (markdown_out).                                                  *)
(*                                                                         *)
(* Text is modelled as a sequence of one-character strings, so that the    *)
(* string operations of the source (strip, split, startswith, the regular  *)
(* expressions) are computed on characters as Python computes them.        *)
(* A Python dict is a sequence of <<key, value>> pairs in insertion order. *)
(***************************************************************************)
EXTENDS Integers, Sequences, FiniteSets, TLC

VARIABLES
    pc,                            \* position of the run (see Init)
    msg_idx,                       \* number of message files opened so far
    line_number,                   \* enumerate(uorbfile, 1)
    read,                          \* raw lines of the current file read so far
    found_first_relevant_content,  \* parseFile local
    gettingInitialComments,        \* parseFile local
    gettingFields,                 \* parseFile local
    initial_block_lines,           \* parseFile local: the header-line buffer
    shortDescription,              \* UORBMessage.shortDescription
    longDescription,               \* UORBMessage.longDescription
    fields,                        \* UORBMessage.fields
    enumValues,                    \* UORBMessage.enumValues (loose constants)
    enums,                         \* UORBMessage.enums
    invalid_units,                 \* module global invalid_units
    rendered                       \* message files written by markdown_out

vars == <<pc, msg_idx, line_number, read, found_first_relevant_content,
          gettingInitialComments, gettingFields, initial_block_lines,
          shortDescription, longDescription, fields, enumValues, enums,
          invalid_units, rendered>>

----------------------------------------------------------------------------
(* Bounds of the model.                                                    *)

\* most message files of one run
MaxFiles == 2
\* most lines of one message file, per family of input lines
MaxDeclLines == 3
MaxHeaderLines == 4
MaxUnitLines == 3
MaxEnumLines == 3

----------------------------------------------------------------------------
(* Python values.                                                          *)

\* An attribute that may be None is the empty tuple for None and the
\* one-element tuple <<v>> for the value v
None == <<>>
Some(v) == <<v>>

\* the empty str
Empty == <<>>

----------------------------------------------------------------------------
(* str operations.                                                         *)

\* characters matched by \s and removed by str.strip()
IsSpace(c) == c \in {" ", "\t", "\n"}

\* s[i:] with a 0-based Python index i >= 0
From(s, i) == SubSeq(s, i + 1, Len(s))

\* str.startswith
StartsWith(s, p) == Len(s) >= Len(p) /\ SubSeq(s, 1, Len(p)) = p

RECURSIVE LStrip(_)
LStrip(s) == IF s # <<>> /\ IsSpace(Head(s)) THEN LStrip(Tail(s)) ELSE s

RECURSIVE RStrip(_)
RStrip(s) == IF s # <<>> /\ IsSpace(s[Len(s)])
             THEN RStrip(SubSeq(s, 1, Len(s) - 1)) ELSE s

\* str.strip()
Strip(s) == RStrip(LStrip(s))

\* re.sub(r'\s+', ' ', s): every run of whitespace becomes one space
RECURSIVE SubSpaces(_)
SubSpaces(s) ==
    IF s = <<>> THEN <<>>
    ELSE IF IsSpace(Head(s)) THEN <<" ">> \o SubSpaces(LStrip(s))
    ELSE <<Head(s)>> \o SubSpaces(Tail(s))

\* c in s
Contains(s, c) == \E i \in 1..Len(s) : s[i] = c

\* 1-based index of the first c in s at or after position i, 0 when none
RECURSIVE IndexFrom(_, _, _)
IndexFrom(s, c, i) ==
    IF i > Len(s) THEN 0
    ELSE IF s[i] = c THEN i
    ELSE IndexFrom(s, c, i + 1)

\* str.split(c) for a one-character separator: always at least one part
RECURSIVE Split(_, _)
Split(s, c) ==
    LET k == IndexFrom(s, c, 1)
    IN  IF k = 0 THEN <<s>>
        ELSE <<SubSeq(s, 1, k - 1)>> \o Split(SubSeq(s, k + 1, Len(s)), c)

\* the literal texts the source tests for
Hash == "#"
TopicsMarker == <<"#", " ", "T", "O", "P", "I", "C", "S">>
TagEnum == <<"@", "e", "n", "u", "m">>
TagRange == <<"@", "r", "a", "n", "g", "e">>
TagInvalid == <<"@", "i", "n", "v", "a", "l", "i", "d">>

\* ALLOWED_UNITS
ALLOWED_UNITS ==
    { <<"m">>, <<"m", "/", "s">>, <<"r", "a", "d">>,
      <<"r", "a", "d", "/", "s">>, <<"r", "p", "m">>, <<"V">>, <<"A">>,
      <<"m", "A">>, <<"m", "A", "h">>, <<"W">>, <<"d", "B", "m">>, <<"s">>,
      <<"m", "s">>, <<"u", "s">>, <<"O", "h", "m">>, <<"M", "B">>,
      <<"K", "b", "/", "s">> }

----------------------------------------------------------------------------
(* dict operations: a dict is a sequence of <<key, value>> pairs, in       *)
(* insertion order.                                                        *)

DictKeys(d) == { d[i][1] : i \in DOMAIN d }

\* the keys in iteration order
DictKeySeq(d) == [i \in DOMAIN d |-> d[i][1]]

\* k in d
DictHas(d, k) == \E i \in DOMAIN d : d[i][1] = k

\* d[k]
DictGet(d, k) == d[CHOOSE i \in DOMAIN d : d[i][1] = k][2]

\* d[k] = v: a known key keeps its place, a new key goes last
DictSet(d, k, v) ==
    IF DictHas(d, k)
    THEN [i \in DOMAIN d |-> IF d[i][1] = k THEN <<k, v>> ELSE d[i]]
    ELSE Append(d, <<k, v>>)

\* del d[k], for a key that is present
DictDel(d, k) == SelectSeq(d, LAMBDA p : p[1] # k)

----------------------------------------------------------------------------
(* MessageField.__init__: the annotation parser.                           *)

\* Enum(name, parentMessage); id stands for the identity of the object
NewEnum(name, id) == [name |-> name, enumValues |-> <<>>, id |-> id]

\* CreateEnums as it would be without the test "not enumName in
\* parentMessage.enums": every reference makes a new Enum
RECURSIVE CreateEnumsAlways(_, _, _)
CreateEnumsAlways(msgEnums, names, id) ==
    IF names = <<>> THEN msgEnums
    ELSE CreateEnumsAlways(
            DictSet(msgEnums, Head(names), NewEnum(Head(names), id)),
            Tail(names), id)

\* for enumName in self.enums: create the parent enum objects not yet known
RECURSIVE CreateEnums(_, _, _)
CreateEnums(msgEnums, names, id) ==
    IF names = <<>> THEN msgEnums
    ELSE CreateEnums(
            IF ~DictHas(msgEnums, Head(names))
            THEN DictSet(msgEnums, Head(names), NewEnum(Head(names), id))
            ELSE msgEnums,
            Tail(names), id)

\* one past the first character after position i that is not whitespace
RECURSIVE SkipSpaces(_, _)
SkipSpaces(s, i) ==
    IF i <= Len(s) /\ IsSpace(s[i]) THEN SkipSpaces(s, i + 1) ELSE i

\* re.match(r'^((?:\[[^\]]*\]\s*)+)(.*)$', s): the length of group 1 when
\* the groups are tried from position i; 0 when there is no match
RECURSIVE BracketedEnd(_, _)
BracketedEnd(s, i) ==
    IF i <= Len(s) /\ s[i] = "[" /\ IndexFrom(s, "]", i + 1) # 0
    THEN BracketedEnd(s, SkipSpaces(s, IndexFrom(s, "]", i + 1) + 1))
    ELSE i - 1

\* re.findall(r'\[(.*?)\]', s)
RECURSIVE FindAllBracketed(_)
FindAllBracketed(s) ==
    LET i == IndexFrom(s, "[", 1)
        j == IF i = 0 THEN 0 ELSE IndexFrom(s, "]", i + 1)
    IN  IF j = 0 THEN <<>>
        ELSE <<SubSeq(s, i + 1, j - 1)>> \o FindAllBracketed(From(s, j))

\* HandleItem as it would be if an unhandled tag only printed its warning,
\* without exit()
HandleItemWarnOnly(st, rawItem) ==
    LET item == Strip(rawItem)
    IN  IF ~StartsWith(item, <<"@">>)
        THEN [st EXCEPT !.unit = Some(item),
                        !.invalid_units =
                            IF item \notin ALLOWED_UNITS
                            THEN @ \cup {item} ELSE @]
        ELSE IF StartsWith(item, TagEnum)
        THEN LET names == Tail(Split(item, " "))
             IN  [st EXCEPT !.enums = Some(names),
                            !.msgEnums = CreateEnums(@, names, st.lineNumber)]
        ELSE IF StartsWith(item, TagRange)
        THEN LET parts == Split(Strip(From(item, 6)), ",")
             IN  IF Len(parts) < 2
                 THEN [st EXCEPT !.minValue = Some(Strip(parts[1])),
                                 !.status = "crashed"]
                 ELSE [st EXCEPT !.minValue = Some(Strip(parts[1])),
                                 !.maxValue = Some(Strip(parts[2]))]
        ELSE IF StartsWith(item, TagInvalid)
        THEN [st EXCEPT !.invalidValue = Some(Strip(From(item, 8)))]
        ELSE st

\* HandleItem as it would be if a unit outside ALLOWED_UNITS were recorded
\* as invalid and not kept as the unit of the field
HandleItemDropInvalidUnit(st, rawItem) ==
    LET item == Strip(rawItem)
    IN  IF ~StartsWith(item, <<"@">>)
        THEN IF item \notin ALLOWED_UNITS
             THEN [st EXCEPT !.invalid_units = @ \cup {item}]
             ELSE [st EXCEPT !.unit = Some(item)]
        ELSE IF StartsWith(item, TagEnum)
        THEN LET names == Tail(Split(item, " "))
             IN  [st EXCEPT !.enums = Some(names),
                            !.msgEnums = CreateEnums(@, names, st.lineNumber)]
        ELSE IF StartsWith(item, TagRange)
        THEN LET parts == Split(Strip(From(item, 6)), ",")
             IN  IF Len(parts) < 2
                 THEN [st EXCEPT !.minValue = Some(Strip(parts[1])),
                                 !.status = "crashed"]
                 ELSE [st EXCEPT !.minValue = Some(Strip(parts[1])),
                                 !.maxValue = Some(Strip(parts[2]))]
        ELSE IF StartsWith(item, TagInvalid)
        THEN [st EXCEPT !.invalidValue = Some(Strip(From(item, 8)))]
        ELSE [st EXCEPT !.status = "exited"]

\* the body of "for item in bracket_content_matches", on the state st of
\* the field under construction and of what it changes outside itself
HandleItem(st, rawItem) ==
    LET item == Strip(rawItem)
    IN  IF ~StartsWith(item, <<"@">>)
        THEN [st EXCEPT !.unit = Some(item),
                        !.invalid_units =
                            IF item \notin ALLOWED_UNITS
                            THEN @ \cup {item} ELSE @]
        ELSE IF StartsWith(item, TagEnum)
        THEN LET names == Tail(Split(item, " "))
             IN  [st EXCEPT !.enums = Some(names),
                            !.msgEnums = CreateEnums(@, names, st.lineNumber)]
        ELSE IF StartsWith(item, TagRange)
        THEN LET parts == Split(Strip(From(item, 6)), ",")
             IN  IF Len(parts) < 2
                 THEN [st EXCEPT !.minValue = Some(Strip(parts[1])),
                                 !.status = "crashed"]
                 ELSE [st EXCEPT !.minValue = Some(Strip(parts[1])),
                                 !.maxValue = Some(Strip(parts[2]))]
        ELSE IF StartsWith(item, TagInvalid)
        THEN [st EXCEPT !.invalidValue = Some(Strip(From(item, 8)))]
        ELSE [st EXCEPT !.status = "exited"]

\* the loop over the bracketed items; exit() and an uncaught exception end it
RECURSIVE HandleItems(_, _)
HandleItems(st, items) ==
    IF items = <<>> \/ st.status # "ok" THEN st
    ELSE HandleItems(HandleItem(st, Head(items)), Tail(items))

\* MessageField(name, type, comment, line_number, parentMessage), with the
\* enums of the parent message and the global invalid_units it may change
MessageField(name, type, comment, lineNo, msgEnums, invalid) ==
    LET text == IF comment = None THEN Empty ELSE comment[1]
        e == IF text # Empty THEN BracketedEnd(text, 1) ELSE 0
        matched == e > 0
        bracketed_part == IF matched THEN Strip(SubSeq(text, 1, e)) ELSE Empty
        description == IF matched THEN Some(Strip(From(text, e))) ELSE comment
        st0 == [status |-> "ok", name |-> name, type |-> type,
                comment |-> comment, description |-> description,
                unit |-> None, enums |-> None, minValue |-> None,
                maxValue |-> None, invalidValue |-> None,
                lineNumber |-> lineNo, msgEnums |-> msgEnums,
                invalid_units |-> invalid]
    IN  IF bracketed_part # Empty
        THEN HandleItems(st0, FindAllBracketed(bracketed_part))
        ELSE st0

\* the attributes of a constructed MessageField
FieldOf(st) ==
    [name |-> st.name, type |-> st.type, comment |-> st.comment,
     description |-> st.description, unit |-> st.unit, enums |-> st.enums,
     minValue |-> st.minValue, maxValue |-> st.maxValue,
     invalidValue |-> st.invalidValue, lineNumber |-> st.lineNumber]

----------------------------------------------------------------------------
(* EnumValue.__init__: a constant.                                         *)

EnumValue(name, type, value, comment, lineNo) ==
    [status |-> IF Strip(value) = Empty THEN "exited" ELSE "ok",
     name |-> Strip(name), type |-> Strip(type), value |-> Strip(value),
     comment |-> comment, line_number |-> lineNo]

ConstantOf(ev) ==
    [name |-> ev.name, type |-> ev.type, value |-> ev.value,
     comment |-> ev.comment, line_number |-> ev.line_number]

----------------------------------------------------------------------------
(* UORBMessage.handleField: the declaration classifier.  m holds the       *)
(* attributes of the message and the global invalid_units; the result adds *)
(* status: "ok", "exited" (exit() was called) or "crashed" (an uncaught    *)
(* IndexError).                                                            *)

handleField(line, lineNo, m) ==
    LET hasComment == Contains(line, Hash)
        commentExtract == Split(line, Hash)
        fieldOrConstant == IF hasComment THEN Strip(commentExtract[1])
                           ELSE Strip(line)
        comment == IF hasComment
                   THEN Some(Strip(commentExtract[Len(commentExtract)]))
                   ELSE None
    IN  IF ~Contains(fieldOrConstant, "=")
        THEN LET field == Split(fieldOrConstant, " ")
             IN  IF Len(field) < 2 THEN [m EXCEPT !.status = "crashed"]
                 ELSE LET f == MessageField(Strip(field[2]), Strip(field[1]),
                                            comment, lineNo, m.enums,
                                            m.invalid_units)
                      IN  [m EXCEPT !.status = f.status,
                                    !.enums = f.msgEnums,
                                    !.invalid_units = f.invalid_units,
                                    !.fields = IF f.status = "ok"
                                               THEN Append(@, FieldOf(f))
                                               ELSE @]
        ELSE LET temp == Split(fieldOrConstant, "=")
                 value == temp[Len(temp)]
                 typeAndName == Split(temp[1], " ")
             IN  IF Len(typeAndName) < 2 THEN [m EXCEPT !.status = "crashed"]
                 ELSE LET name == typeAndName[2]
                          ev == EnumValue(name, typeAndName[1], value,
                                          comment, lineNo)
                      IN  [m EXCEPT !.status = ev.status,
                                    !.enumValues =
                                        IF ev.status = "ok"
                                        THEN DictSet(@, name, ConstantOf(ev))
                                        ELSE @]

----------------------------------------------------------------------------
(* UORBMessage.parseFile: one iteration of the loop over the lines.        *)

\* stripped_line = re.sub(r'\s+', ' ', line).strip()
StrippedLine(line) == Strip(SubSpaces(line))

\* FieldsBlock as it would be without the "continue" of a comment-marked
\* line: the line goes on to handleField
FieldsBlockNoSkip(stripped_line, lineNo, m) ==
    IF stripped_line = Empty THEN m
    ELSE IF StartsWith(stripped_line, TopicsMarker) THEN m
    ELSE handleField(stripped_line, lineNo, m)

\* the "if gettingFields:" block for the line stripped_line
FieldsBlock(stripped_line, lineNo, m) ==
    IF stripped_line = Empty THEN m
    ELSE IF StartsWith(stripped_line, TopicsMarker) THEN m
    ELSE IF StartsWith(stripped_line, <<Hash>>) THEN m
    ELSE handleField(stripped_line, lineNo, m)

\* HeaderBlock as it would be if every comment-marked line were taken for
\* a header line, whatever was read before it
HeaderBlockAnyComment(stripped_line, s) ==
    IF StartsWith(stripped_line, <<Hash>>)
    THEN [s EXCEPT !.initial_block_lines =
                       Append(@, Strip(From(stripped_line, 1)))]
    ELSE [s EXCEPT !.gettingInitialComments = FALSE,
                   !.gettingFields = TRUE]

\* "if gettingInitialComments and stripped_line.startswith("#"): ... else:"
HeaderBlock(stripped_line, s) ==
    IF s.gettingInitialComments /\ StartsWith(stripped_line, <<Hash>>)
    THEN [s EXCEPT !.initial_block_lines =
                       Append(@, Strip(From(stripped_line, 1)))]
    ELSE [s EXCEPT !.gettingInitialComments = FALSE,
                   !.gettingFields = TRUE]

\* The body of "for line_number, line in enumerate(uorbfile, 1)".  s holds
\* the locals of parseFile, the attributes of the message and invalid_units.
ParseLine(line, lineNo, s) ==
    LET stripped_line == StrippedLine(line)
    IN  IF ~s.found_first_relevant_content /\ stripped_line = Empty
        THEN s
        ELSE
        LET isComment == StartsWith(stripped_line, <<Hash>>)
            \* if not found_first_relevant_content and stripped_line: ...
            s1 == IF ~s.found_first_relevant_content
                  THEN [s EXCEPT !.found_first_relevant_content = TRUE,
                                 !.gettingInitialComments = isComment,
                                 !.gettingFields = IF isComment THEN @
                                                   ELSE TRUE]
                  ELSE s
            s2 == HeaderBlock(stripped_line, s1)
        IN  IF s2.gettingFields
            THEN FieldsBlock(stripped_line, lineNo, s2)
            ELSE s2

----------------------------------------------------------------------------
(* UORBMessage.parseFile: the short and the long description.              *)

\* SummaryLine as it would be without the "continue" that skips the blank
\* lines before the short description
SummaryLineNoSkip(d, summaryline) ==
    LET blank == Strip(summaryline) = Empty
    IN  IF ~d.doingLongDescription /\ ~blank
        THEN [d EXCEPT !.shortDescription =
                           Strip(@ \o <<" ">> \o summaryline)]
        ELSE IF ~d.doingLongDescription /\ blank
        THEN [d EXCEPT !.doingLongDescription = TRUE]
        ELSE [d EXCEPT !.longDescription = @ \o summaryline \o <<"\n">>]

\* the body of "for summaryline in initial_block_lines"
SummaryLine(d, summaryline) ==
    LET blank == Strip(summaryline) = Empty
    IN  IF d.shortDescription = Empty /\ blank THEN d
        ELSE IF ~d.doingLongDescription /\ ~blank
        THEN [d EXCEPT !.shortDescription =
                           Strip(@ \o <<" ">> \o summaryline)]
        ELSE IF ~d.doingLongDescription /\ blank
        THEN [d EXCEPT !.doingLongDescription = TRUE]
        ELSE [d EXCEPT !.longDescription = @ \o summaryline \o <<"\n">>]

RECURSIVE SummaryLines(_, _)
SummaryLines(d, lines) ==
    IF lines = <<>> THEN d
    ELSE SummaryLines(SummaryLine(d, Head(lines)), Tail(lines))

\* shortDescription and longDescription of the header-line buffer
Descriptions(lines) ==
    SummaryLines([shortDescription |-> Empty, longDescription |-> Empty,
                  doingLongDescription |-> FALSE], lines)

----------------------------------------------------------------------------
(* UORBMessage.parseFile: the enum-association pass.                       *)

\* "if enumValueName.startswith(enumName)"
Associated(enumValueName, enumName) == StartsWith(enumValueName, enumName)

\* the names of the loose constants associated with enumName, in the
\* iteration order of self.enumValues
MatchingNames(loose, enumName) ==
    SelectSeq(DictKeySeq(loose), LAMBDA n : Associated(n, enumName))

\* enumObject.enumValues[enumValueName] = enumValueObject, for every name
RECURSIVE CopyValues(_, _, _)
CopyValues(values, loose, names) ==
    IF names = <<>> THEN values
    ELSE CopyValues(DictSet(values, Head(names), DictGet(loose, Head(names))),
                    loose, Tail(names))

\* the outer loop "for enumName, enumObject in self.enums.items()": the
\* enums with their values filled in
FillEnums(msgEnums, loose) ==
    [i \in DOMAIN msgEnums |->
        <<msgEnums[i][1],
          [msgEnums[i][2] EXCEPT !.enumValues =
              CopyValues(@, loose, MatchingNames(loose, msgEnums[i][1]))]>>]

\* enumValuesToRemove, as the two loops append to it
RECURSIVE ValuesToRemove(_, _)
ValuesToRemove(enumNames, loose) ==
    IF enumNames = <<>> THEN <<>>
    ELSE MatchingNames(loose, Head(enumNames))
         \o ValuesToRemove(Tail(enumNames), loose)

\* DeleteValues as it would be with self.enumValues.clear() for the deletions
DeleteValuesClear(loose, names) == [status |-> "ok", enumValues |-> <<>>]

\* "for enumValName in enumValuesToRemove: del self.enumValues[enumValName]";
\* del of a key that is not there raises KeyError, which nothing catches
RECURSIVE DeleteValues(_, _)
DeleteValues(loose, names) ==
    IF names = <<>> THEN [status |-> "ok", enumValues |-> loose]
    ELSE IF ~DictHas(loose, Head(names))
    THEN [status |-> "crashed", enumValues |-> loose]
    ELSE DeleteValues(DictDel(loose, Head(names)), Tail(names))

\* the whole pass: [status, enums, enumValues]
AssociateEnums(msgEnums, loose) ==
    LET del == DeleteValues(loose,
                            ValuesToRemove(DictKeySeq(msgEnums), loose))
    IN  [status |-> del.status, enums |-> FillEnums(msgEnums, loose),
         enumValues |-> del.enumValues]

----------------------------------------------------------------------------
(* Input lines.  Every line is the text read from the file, with its       *)
(* line break.  The lines are grouped in families; a specification draws   *)
(* the lines of its files from one family.                                 *)

\* \n
BlankLine ==
    <<"\n">>

\* # TOPICS a b\n
TopicsLine ==
    <<"#", " ", "T", "O", "P", "I", "C", "S", " ", "a", " ", "b", "\n">>

\* # note\n
CommentLine ==
    <<"#", " ", "n", "o", "t", "e", "\n">>

\* uint8 f\n
PlainField ==
    <<"u", "i", "n", "t", "8", " ", "f", "\n">>

\* bool g # on = 1\n
FieldEqInComment ==
    <<"b", "o", "o", "l", " ", "g", " ", "#", " ", "o", "n", " ", "=", " ",
      "1", "\n">>

\*   uint8\th   # two # last\n
TabbedField ==
    <<" ", " ", "u", "i", "n", "t", "8", "\t", "h", " ", " ", " ", "#",
      " ", "t", "w", "o", " ", "#", " ", "l", "a", "s", "t", "\n">>

\* uint8 K = 1 # one\n
Constant ==
    <<"u", "i", "n", "t", "8", " ", "K", " ", "=", " ", "1", " ", "#", " ",
      "o", "n", "e", "\n">>

\* uint8 K=2\n
ConstantAgain ==
    <<"u", "i", "n", "t", "8", " ", "K", "=", "2", "\n">>

\* uint8 E = # none\n
EmptyValue ==
    <<"u", "i", "n", "t", "8", " ", "E", " ", "=", " ", "#", " ", "n", "o",
      "n", "e", "\n">>

\* uint8 = 5\n
EmptyName ==
    <<"u", "i", "n", "t", "8", " ", "=", " ", "5", "\n">>

\* uint8\n
OneWord ==
    <<"u", "i", "n", "t", "8", "\n">>

DeclLines ==
    {BlankLine, TopicsLine, CommentLine, PlainField,
     FieldEqInComment, TabbedField, Constant, ConstantAgain,
     EmptyValue, EmptyName, OneWord}

\* uint8 n # [s\n
NoUnit ==
    <<"u", "i", "n", "t", "8", " ", "n", " ", "#", " ", "[", "s", "\n">>

\* uint8 t # time [s]\n
LateUnit ==
    <<"u", "i", "n", "t", "8", " ", "t", " ", "#", " ", "t", "i", "m", "e",
      " ", "[", "s", "]", "\n">>

\* float32 v # [m/s] speed\n
GoodUnit ==
    <<"f", "l", "o", "a", "t", "3", "2", " ", "v", " ", "#", " ", "[", "m",
      "/", "s", "]", " ", "s", "p", "e", "e", "d", "\n">>

\* float32 w # [N] force\n
BadUnit ==
    <<"f", "l", "o", "a", "t", "3", "2", " ", "w", " ", "#", " ", "[", "N",
      "]", " ", "f", "o", "r", "c", "e", "\n">>

\* float32 p # [kg] [m] both\n
TwoUnits ==
    <<"f", "l", "o", "a", "t", "3", "2", " ", "p", " ", "#", " ", "[", "k",
      "g", "]", " ", "[", "m", "]", " ", "b", "o", "t", "h", "\n">>

\* uint8 r # [@range 0, 100] percent\n
RangeTag ==
    <<"u", "i", "n", "t", "8", " ", "r", " ", "#", " ", "[", "@", "r", "a",
      "n", "g", "e", " ", "0", ",", " ", "1", "0", "0", "]", " ", "p", "e",
      "r", "c", "e", "n", "t", "\n">>

\* float32 i # [ms] [@invalid NaN] age\n
InvalidTag ==
    <<"f", "l", "o", "a", "t", "3", "2", " ", "i", " ", "#", " ", "[", "m",
      "s", "]", " ", "[", "@", "i", "n", "v", "a", "l", "i", "d", " ", "N",
      "a", "N", "]", " ", "a", "g", "e", "\n">>

\* uint8 x # [@max 5] cap\n
UnknownTag ==
    <<"u", "i", "n", "t", "8", " ", "x", " ", "#", " ", "[", "@", "m", "a",
      "x", " ", "5", "]", " ", "c", "a", "p", "\n">>

\* uint8 y # [Hz][@min 1] rate\n
UnitThenUnknown ==
    <<"u", "i", "n", "t", "8", " ", "y", " ", "#", " ", "[", "H", "z", "]",
      "[", "@", "m", "i", "n", " ", "1", "]", " ", "r", "a", "t", "e", "\n">>

\* uint8 z # [@min 1][kg] mass\n
UnknownThenUnit ==
    <<"u", "i", "n", "t", "8", " ", "z", " ", "#", " ", "[", "@", "m", "i",
      "n", " ", "1", "]", "[", "k", "g", "]", " ", "m", "a", "s", "s", "\n">>

UnitLines ==
    {NoUnit, LateUnit, GoodUnit, BadUnit,
     TwoUnits, RangeTag, InvalidTag, UnknownTag,
     UnitThenUnknown, UnknownThenUnit}

\* uint8 s # [@enum A] state\n
EnumA ==
    <<"u", "i", "n", "t", "8", " ", "s", " ", "#", " ", "[", "@", "e", "n",
      "u", "m", " ", "A", "]", " ", "s", "t", "a", "t", "e", "\n">>

\* uint8 t # [@enum AB] kind\n
EnumAB ==
    <<"u", "i", "n", "t", "8", " ", "t", " ", "#", " ", "[", "@", "e", "n",
      "u", "m", " ", "A", "B", "]", " ", "k", "i", "n", "d", "\n">>

\* uint8 u # [@enum B A]\n
EnumTwo ==
    <<"u", "i", "n", "t", "8", " ", "u", " ", "#", " ", "[", "@", "e", "n",
      "u", "m", " ", "B", " ", "A", "]", "\n">>

\* uint8 w # [@enum C][@enum AB]\n
EnumTwice ==
    <<"u", "i", "n", "t", "8", " ", "w", " ", "#", " ", "[", "@", "e", "n",
      "u", "m", " ", "C", "]", "[", "@", "e", "n", "u", "m", " ", "A", "B",
      "]", "\n">>

\* uint8 A_1 = 1\n
ConstA ==
    <<"u", "i", "n", "t", "8", " ", "A", "_", "1", " ", "=", " ", "1", "\n">>

\* uint8 AB_1 = 2 # two\n
ConstAB ==
    <<"u", "i", "n", "t", "8", " ", "A", "B", "_", "1", " ", "=", " ", "2",
      " ", "#", " ", "t", "w", "o", "\n">>

\* uint8 D_1 = 3\n
ConstD ==
    <<"u", "i", "n", "t", "8", " ", "D", "_", "1", " ", "=", " ", "3", "\n">>

\* uint8 A_1 = 4 # [@enum Z] x\n
ConstTagged ==
    <<"u", "i", "n", "t", "8", " ", "A", "_", "1", " ", "=", " ", "4", " ",
      "#", " ", "[", "@", "e", "n", "u", "m", " ", "Z", "]", " ", "x", "\n">>

EnumLines ==
    {EnumA, EnumAB, EnumTwo, EnumTwice,
     ConstA, ConstAB, ConstD, ConstTagged}

\*  \n
HBlank ==
    <<" ", "\n">>

\* # Short one.\n
HShort ==
    <<"#", " ", "S", "h", "o", "r", "t", " ", "o", "n", "e", ".", "\n">>

\* #\n
HEmpty ==
    <<"#", "\n">>

\* #  Long line one.\n
HLongOne ==
    <<"#", " ", " ", "L", "o", "n", "g", " ", "l", "i", "n", "e", " ", "o",
      "n", "e", ".", "\n">>

\* # Long line two.\n
HLongTwo ==
    <<"#", " ", "L", "o", "n", "g", " ", "l", "i", "n", "e", " ", "t", "w",
      "o", ".", "\n">>

\* uint8 f # [m] d\n
HField ==
    <<"u", "i", "n", "t", "8", " ", "f", " ", "#", " ", "[", "m", "]", " ",
      "d", "\n">>

HeaderLines ==
    {HBlank, HShort, HEmpty, HLongOne,
     HLongTwo, HField}

----------------------------------------------------------------------------
(* The run: the loop "for msg_file in msg_files" of __main__.              *)
(*                                                                         *)
(* pc is the position of the run:                                          *)
(*   "main"     between two message files, or before the first             *)
(*   "lines"    in parseFile, in the loop over the lines                   *)
(*   "assoc"    in parseFile, before the enum-association pass             *)
(*   "render"   parseFile has returned, markdown_out has not run           *)
(*   "finished" every file is done and index.md is written                 *)
(*   "exited"   exit() ended the process                                   *)
(*   "crashed"  an uncaught exception ended the process                    *)

Init ==
    /\ pc = "main"
    /\ msg_idx = 0
    /\ line_number = 0
    /\ read = <<>>
    /\ found_first_relevant_content = FALSE
    /\ gettingInitialComments = FALSE
    /\ gettingFields = FALSE
    /\ initial_block_lines = <<>>
    /\ shortDescription = Empty
    /\ longDescription = Empty
    /\ fields = <<>>
    /\ enumValues = <<>>
    /\ enums = <<>>
    /\ invalid_units = {}
    /\ rendered = <<>>

\* message = UORBMessage(msg_file): __init__ up to the call of parseFile,
\* and the initialisation of the locals of parseFile
StartFile ==
    /\ pc = "main"
    /\ msg_idx < MaxFiles
    /\ pc' = "lines"
    /\ msg_idx' = msg_idx + 1
    /\ line_number' = 0
    /\ read' = <<>>
    /\ found_first_relevant_content' = FALSE
    /\ gettingInitialComments' = FALSE
    /\ gettingFields' = FALSE
    /\ initial_block_lines' = <<>>
    /\ shortDescription' = Empty
    /\ longDescription' = Empty
    /\ fields' = <<>>
    /\ enumValues' = <<>>
    /\ enums' = <<>>
    /\ UNCHANGED <<invalid_units, rendered>>

\* the locals of parseFile, the attributes of the message and invalid_units
ParseState ==
    [status |-> "ok",
     found_first_relevant_content |-> found_first_relevant_content,
     gettingInitialComments |-> gettingInitialComments,
     gettingFields |-> gettingFields,
     initial_block_lines |-> initial_block_lines,
     fields |-> fields, enumValues |-> enumValues, enums |-> enums,
     invalid_units |-> invalid_units]

\* one iteration of the loop over the lines, for the next line of the file
ReadLine(lines, maxLines) ==
    /\ pc = "lines"
    /\ Len(read) < maxLines
    /\ \E line \in lines :
        LET s == ParseLine(line, line_number + 1, ParseState)
        IN  /\ pc' = IF s.status = "ok" THEN "lines" ELSE s.status
            /\ line_number' = line_number + 1
            /\ read' = Append(read, line)
            /\ found_first_relevant_content' = s.found_first_relevant_content
            /\ gettingInitialComments' = s.gettingInitialComments
            /\ gettingFields' = s.gettingFields
            /\ initial_block_lines' = s.initial_block_lines
            /\ fields' = s.fields
            /\ enumValues' = s.enumValues
            /\ enums' = s.enums
            /\ invalid_units' = s.invalid_units
    /\ UNCHANGED <<msg_idx, shortDescription, longDescription, rendered>>

\* the file is exhausted: the short and the long description are derived
EndOfFile ==
    /\ pc = "lines"
    /\ LET d == Descriptions(initial_block_lines)
       IN  /\ shortDescription' = d.shortDescription
           /\ longDescription' = d.longDescription
    /\ pc' = "assoc"
    /\ UNCHANGED <<msg_idx, line_number, read, found_first_relevant_content,
                   gettingInitialComments, gettingFields, initial_block_lines,
                   fields, enumValues, enums, invalid_units, rendered>>

\* the enum-association pass, after which parseFile returns
Associate ==
    /\ pc = "assoc"
    /\ LET a == AssociateEnums(enums, enumValues)
       IN  /\ pc' = IF a.status = "ok" THEN "render" ELSE a.status
           /\ enums' = a.enums
           /\ enumValues' = a.enumValues
    /\ UNCHANGED <<msg_idx, line_number, read, found_first_relevant_content,
                   gettingInitialComments, gettingFields, initial_block_lines,
                   shortDescription, longDescription, fields, invalid_units,
                   rendered>>

\* message.markdown_out(): the file of the message is written
Render ==
    /\ pc = "render"
    /\ rendered' = Append(rendered, msg_idx)
    /\ pc' = "main"
    /\ UNCHANGED <<msg_idx, line_number, read, found_first_relevant_content,
                   gettingInitialComments, gettingFields, initial_block_lines,
                   shortDescription, longDescription, fields, enumValues,
                   enums, invalid_units>>

\* msg_files is exhausted: index.md is written and the run ends
Finish ==
    /\ pc = "main"
    /\ pc' = "finished"
    /\ UNCHANGED <<msg_idx, line_number, read, found_first_relevant_content,
                   gettingInitialComments, gettingFields, initial_block_lines,
                   shortDescription, longDescription, fields, enumValues,
                   enums, invalid_units, rendered>>

\* a run whose files hold at most maxLines lines, each drawn from lines
NextOver(lines, maxLines) ==
    \/ StartFile
    \/ ReadLine(lines, maxLines)
    \/ EndOfFile
    \/ Associate
    \/ Render
    \/ Finish

\* files of declarations
Next == NextOver(DeclLines, MaxDeclLines)
Spec == Init /\ [][Next]_vars

\* files of fields with units and metadata tags
NextUnits == NextOver(UnitLines, MaxUnitLines)
SpecUnits == Init /\ [][NextUnits]_vars

\* files of enum-tagged fields and constants
NextEnums == NextOver(EnumLines, MaxEnumLines)
SpecEnums == Init /\ [][NextEnums]_vars

\* files with a header comment block
NextHeader == NextOver(HeaderLines, MaxHeaderLines)
SpecHeader == Init /\ [][NextHeader]_vars

----------------------------------------------------------------------------
(* The input as text: what a line of a file declares, read off the line    *)
(* itself.  The properties below compare the message with these.           *)

Range(f) == { f[i] : i \in DOMAIN f }
Last(q) == q[Len(q)]

\* the line with its whitespace normalised
Norm(line) == Strip(SubSpaces(line))

\* the line is blank
IsBlankLine(line) == Norm(line) = Empty

\* the line is comment-marked
IsCommentLine(line) == Norm(line) # Empty /\ Head(Norm(line)) = "#"

\* the line is neither blank nor comment-marked: a declaration
IsDeclarationLine(line) == ~IsBlankLine(line) /\ ~IsCommentLine(line)

\* the text of a declaration line before its first '#'
DeclarationText(line) ==
    LET k == IndexFrom(Norm(line), "#", 1)
    IN  Strip(IF k = 0 THEN Norm(line) ELSE SubSeq(Norm(line), 1, k - 1))

\* the words of the declaration on the left of its first '='
DeclarationWords(line) ==
    LET k == IndexFrom(DeclarationText(line), "=", 1)
    IN  Split(IF k = 0 THEN DeclarationText(line)
              ELSE SubSeq(DeclarationText(line), 1, k - 1), " ")

IsFieldLine(line) ==
    IsDeclarationLine(line) /\ ~Contains(DeclarationText(line), "=")

IsConstantLine(line) ==
    IsDeclarationLine(line) /\ Contains(DeclarationText(line), "=")

\* the trailing comment of a declaration line: the text after its last '#'
TrailingComment(line) ==
    LET parts == Split(Norm(line), "#")
    IN  IF Len(parts) = 1 THEN Empty ELSE Strip(parts[Len(parts)])

\* the bracketed tokens the trailing comment begins with, each trimmed
MetadataTokens(line) ==
    LET c == TrailingComment(line)
        items == FindAllBracketed(SubSeq(c, 1, BracketedEnd(c, 1)))
    IN  [i \in DOMAIN items |-> Strip(items[i])]

IsUnitToken(t) == t = Empty \/ Head(t) # "@"
IsEnumToken(t) == StartsWith(t, TagEnum)
IsRangeToken(t) == StartsWith(t, TagRange)
IsInvalidToken(t) == StartsWith(t, TagInvalid)
IsUnknownToken(t) ==
    ~IsUnitToken(t) /\ ~IsEnumToken(t) /\ ~IsRangeToken(t)
    /\ ~IsInvalidToken(t)

\* the enum names the @enum tags of a field line list
EnumNamesOfLine(line) ==
    LET toks == MetadataTokens(line)
    IN  UNION { Range(Tail(Split(toks[i], " "))) :
                    i \in { k \in DOMAIN toks : IsEnumToken(toks[k]) } }

\* the enum names the @enum tags of the field lines of a file list
EnumTagNames(lines) ==
    UNION { EnumNamesOfLine(lines[i]) :
                i \in { k \in DOMAIN lines : IsFieldLine(lines[k]) } }

\* the run is in a parse, or past one, that no fatal error has ended
Live == pc \in {"lines", "assoc", "render", "main", "finished"}

----------------------------------------------------------------------------
(* Properties of the enum-association pass.                                *)

\* the names of the constants the enums of the message hold
EnumHeld(msgEnums) ==
    UNION { DictKeys(msgEnums[i][2].enumValues) : i \in DOMAIN msgEnums }

\* the number of mappings (the loose one and those of the enums) holding n
Holders(n, msgEnums, loose) ==
    (IF n \in DictKeys(loose) THEN 1 ELSE 0)
    + Cardinality({ i \in DOMAIN msgEnums :
                        n \in DictKeys(msgEnums[i][2].enumValues) })

\* n starts with the name of at least one enum of the message
HasEnumPrefix(n, msgEnums) ==
    \E i \in DOMAIN msgEnums :
        /\ Len(msgEnums[i][1]) <= Len(n)
        /\ \A k \in 1..Len(msgEnums[i][1]) : n[k] = msgEnums[i][1][k]

\* C1: once the enum-association pass has run, every constant of the file
\* is held in exactly one place: the loose mapping of the message or the
\* value mapping of exactly one enum.
C1_ExactlyOnePlace ==
    [][pc = "assoc" =>
        \A n \in DictKeys(enumValues) : Holders(n, enums', enumValues') = 1]_vars

\* C8: the enum-association pass runs to completion without error, and it
\* removes from the loose mapping every constant whose name starts with the
\* name of an enum, each by a single deletion.
C8_DeletedOnceNoError ==
    [][pc = "assoc" =>
        /\ pc' = "render"
        /\ \A n \in DictKeys(enumValues) :
              HasEnumPrefix(n, enums) => n \notin DictKeys(enumValues')]_vars

\* C10: the enum-association pass conserves the constants and touches
\* nothing else: the names held after it (loose or in an enum) are the loose
\* names before it, each bound to the same constant; a constant whose name
\* starts with no enum name stays loose; the fields and the enum names are
\* unchanged.
C10_AssociationConserves ==
    [][pc = "assoc" =>
        /\ DictKeys(enumValues') \cup EnumHeld(enums') = DictKeys(enumValues)
        /\ \A i \in DOMAIN enumValues' :
              enumValues'[i][2] = DictGet(enumValues, enumValues'[i][1])
        /\ \A i \in DOMAIN enums' :
              \A k \in DOMAIN enums'[i][2].enumValues :
                  enums'[i][2].enumValues[k][2]
                      = DictGet(enumValues, enums'[i][2].enumValues[k][1])
        /\ \A n \in DictKeys(enumValues) :
              ~HasEnumPrefix(n, enums) => n \in DictKeys(enumValues')
        /\ fields' = fields
        /\ DictKeySeq(enums') = DictKeySeq(enums)]_vars

\* the pass has moved a constant into an enum and left another one loose
C10_Witness ==
    /\ pc = "render"
    /\ EnumHeld(enums) # {}
    /\ enumValues # <<>>
    /\ fields # <<>>

----------------------------------------------------------------------------
(* Properties of the enums of a message during the parse.                  *)

\* C6: enums are created only by the @enum tags of fields.  At every point
\* of a parse the enum names of the message are the names listed in the
\* @enum tags of the field lines read so far (so a constant declaration
\* creates none), an enum that exists is not replaced by a later reference
\* to its name, and every enum is empty until the association pass runs.
C6_EnumsLazyFromFields ==
    /\ [](Live => DictKeys(enums) = EnumTagNames(read))
    /\ [](pc \in {"lines", "assoc"} =>
            \A i \in DOMAIN enums : enums[i][2].enumValues = <<>>)
    /\ [][pc = "lines" =>
            /\ Len(enums') >= Len(enums)
            /\ \A i \in DOMAIN enums : enums'[i] = enums[i]]_vars

\* an enum was referenced by two lines, the second time together with a new
\* name, and a constant carrying an @enum comment was declared after it
C6_Witness ==
    /\ pc = "lines"
    /\ read = <<EnumA, EnumTwo, ConstTagged>>
    /\ DictKeySeq(enums) = << <<"A">>, <<"B">> >>
    /\ DictGet(enums, <<"A">>).id = 1
    /\ DictGet(enums, <<"B">>).id = 2
    /\ DictHas(enumValues, <<"A", "_", "1">>)

----------------------------------------------------------------------------
(* Properties of the line classifier of parseFile.                         *)

\* the three states of the classifier, read off the locals of parseFile
SEEKING_FIRST_CONTENT == ~found_first_relevant_content
IN_HEADER_COMMENTS ==
    found_first_relevant_content /\ gettingInitialComments /\ ~gettingFields
IN_DECLARATIONS ==
    found_first_relevant_content /\ ~gettingInitialComments /\ gettingFields

\* a comment-marked line without its marker, trimmed
Unmarked(line) == Strip(Tail(Norm(line)))

\* the comment lines a sequence of lines begins with, unmarked
RECURSIVE CommentRun(_)
CommentRun(lines) ==
    IF lines = <<>> \/ ~IsCommentLine(Head(lines)) THEN <<>>
    ELSE <<Unmarked(Head(lines))>> \o CommentRun(Tail(lines))

\* the maximal run of comment lines that starts at the first non-blank line
RECURSIVE HeaderRun(_)
HeaderRun(lines) ==
    IF lines = <<>> THEN <<>>
    ELSE IF IsBlankLine(Head(lines)) THEN HeaderRun(Tail(lines))
    ELSE CommentRun(lines)

\* a step of the loop over the lines: the line read is Last(read')
ReadStep == pc = "lines" /\ read' # read

\* C2: the line classifier only moves forward.  Leading blank lines change
\* no state; the first non-blank line leads to IN_HEADER_COMMENTS when it
\* is comment-marked and to IN_DECLARATIONS otherwise; IN_HEADER_COMMENTS
\* is left for IN_DECLARATIONS at the first line that is not comment-marked;
\* IN_DECLARATIONS is never left and no line read in it reaches the
\* header-line buffer, which is therefore the maximal run of comment lines
\* starting at the first non-blank line.
C2_ClassifierForwardOnly ==
    /\ [](\/ SEEKING_FIRST_CONTENT /\ ~gettingInitialComments /\ ~gettingFields
          \/ IN_HEADER_COMMENTS
          \/ IN_DECLARATIONS)
    /\ [](initial_block_lines = HeaderRun(read))
    /\ [][ReadStep =>
            LET line == Last(read')
            IN  /\ SEEKING_FIRST_CONTENT /\ IsBlankLine(line) =>
                      /\ SEEKING_FIRST_CONTENT'
                      /\ pc' = "lines"
                      /\ UNCHANGED <<gettingInitialComments, gettingFields,
                                     initial_block_lines, fields, enumValues,
                                     enums, invalid_units, shortDescription,
                                     longDescription, rendered, msg_idx>>
                /\ SEEKING_FIRST_CONTENT /\ IsCommentLine(line) =>
                      IN_HEADER_COMMENTS'
                /\ SEEKING_FIRST_CONTENT /\ IsDeclarationLine(line) =>
                      IN_DECLARATIONS'
                /\ IN_HEADER_COMMENTS /\ IsCommentLine(line) =>
                      IN_HEADER_COMMENTS'
                /\ IN_HEADER_COMMENTS /\ ~IsCommentLine(line) =>
                      IN_DECLARATIONS'
                /\ IN_DECLARATIONS =>
                      /\ IN_DECLARATIONS'
                      /\ initial_block_lines' = initial_block_lines]_vars

\* after a leading blank line and a header of one line, a blank line ended
\* the header and a comment line was read in IN_DECLARATIONS
C2_Witness ==
    /\ pc = "lines"
    /\ read = <<HBlank, HShort, HBlank, HLongOne>>
    /\ IN_DECLARATIONS
    /\ initial_block_lines = << <<"S", "h", "o", "r", "t", " ", "o", "n",
                                 "e", ".">> >>

----------------------------------------------------------------------------
(* Properties of the header post-processing.                               *)

IsBlankText(t) == \A i \in DOMAIN t : IsSpace(t[i])

\* the index of the first blank line of lines, 0 when there is none
FirstBlank(lines) ==
    IF \E i \in DOMAIN lines : IsBlankText(lines[i])
    THEN CHOOSE i \in DOMAIN lines :
            /\ IsBlankText(lines[i])
            /\ \A k \in 1..(i - 1) : ~IsBlankText(lines[k])
    ELSE 0

\* lines without the blank lines it begins with
RECURSIVE DropLeadingBlank(_)
DropLeadingBlank(lines) ==
    IF lines # <<>> /\ IsBlankText(Head(lines))
    THEN DropLeadingBlank(Tail(lines)) ELSE lines

\* the lines joined by single spaces
RECURSIVE JoinSpace(_)
JoinSpace(lines) ==
    IF lines = <<>> THEN <<>>
    ELSE IF Len(lines) = 1 THEN lines[1]
    ELSE lines[1] \o <<" ">> \o JoinSpace(Tail(lines))

\* the lines, each followed by a newline
RECURSIVE EachWithNewline(_)
EachWithNewline(lines) ==
    IF lines = <<>> THEN <<>>
    ELSE Head(lines) \o <<"\n">> \o EachWithNewline(Tail(lines))

\* the lines before the first blank line, joined by single spaces
ShortOf(lines) ==
    JoinSpace(IF FirstBlank(lines) = 0 THEN lines
              ELSE SubSeq(lines, 1, FirstBlank(lines) - 1))

\* the lines after the first blank line, each followed by a newline
LongOf(lines) ==
    IF FirstBlank(lines) = 0 THEN <<>>
    ELSE EachWithNewline(SubSeq(lines, FirstBlank(lines) + 1, Len(lines)))

\* the buffer ['Short one.', '', 'Long line one.', 'Long line two.']
ShortExample ==
    << <<"S", "h", "o", "r", "t", " ", "o", "n", "e", ".">>,
       <<>>,
       <<"L", "o", "n", "g", " ", "l", "i", "n", "e", " ", "o", "n", "e", ".">>,
       <<"L", "o", "n", "g", " ", "l", "i", "n", "e", " ", "t", "w", "o", ".">> >>

\* the header post-processing of the current file has run
Described == pc \in {"assoc", "render"}

\* C3 as stated: shortDescription is the single-space join of the buffer
\* lines before the first blank line of the buffer, longDescription the
\* lines after that blank line, each followed by a newline.
C3_SplitAtFirstBlank ==
    Described =>
        /\ shortDescription = ShortOf(initial_block_lines)
        /\ longDescription = LongOf(initial_block_lines)

\* C3 as amended: the blank lines the buffer begins with are skipped;
\* shortDescription is the single-space join of the lines that follow them
\* up to the next blank line, longDescription the lines after that blank
\* line, each followed by a newline (empty when there is no such blank line).
C3_SplitAfterLeadingBlanks ==
    Described =>
        /\ shortDescription = ShortOf(DropLeadingBlank(initial_block_lines))
        /\ longDescription = LongOf(DropLeadingBlank(initial_block_lines))

\* the header of the example: a short line, a blank line, two long lines
C3_Witness ==
    /\ pc = "assoc"
    /\ read = <<HShort, HEmpty, HLongOne, HLongTwo>>
    /\ initial_block_lines = ShortExample
    /\ shortDescription = <<"S", "h", "o", "r", "t", " ", "o", "n", "e", ".">>
    /\ longDescription = EachWithNewline(SubSeq(ShortExample, 3, 4))

----------------------------------------------------------------------------
(* Properties of the declaration classifier.                               *)

\* every constant held by the message or by one of its enums
HeldConstants ==
    { enumValues[i][2] : i \in DOMAIN enumValues }
    \cup UNION { { enums[i][2].enumValues[k][2] :
                       k \in DOMAIN enums[i][2].enumValues } :
                 i \in DOMAIN enums }

\* C4: a constant declaration with an empty name or an empty value is
\* fatal and is never stored: every constant held by a message or by an
\* enum has a non-empty name and a non-empty value.
C4_ConstantsNameAndValue ==
    \A c \in HeldConstants : c.name # Empty /\ c.value # Empty

\* the numbers of the field lines among lines, in file order
FieldLineNumbers(lines) ==
    SelectSeq([i \in DOMAIN lines |-> i], LAMBDA i : IsFieldLine(lines[i]))

\* C9: in IN_DECLARATIONS blank lines, '# TOPICS' lines and the other
\* comment-marked lines add nothing to the model and do not stop the parse.
\* Every other line, the line that ended the header and the first line of
\* a file without header included, is forwarded to the declaration
\* classifier once and in file order; when the classifier returns, the line
\* has become one field at the end of the fields sequence if its text
\* before the first '#' has no '=', and otherwise one constant stored under
\* its name.
C9_DeclarationsForwarded ==
    /\ [][ReadStep =>
            LET line == Last(read')
                words == DeclarationWords(line)
            IN  /\ IsDeclarationLine(line) => IN_DECLARATIONS'
                /\ IN_DECLARATIONS' /\ ~IsDeclarationLine(line) =>
                      /\ pc' = "lines"
                      /\ UNCHANGED <<fields, enumValues, enums,
                                     invalid_units>>
                /\ IsFieldLine(line) /\ pc' = "lines" =>
                      /\ fields' = Append(fields, Last(fields'))
                      /\ Last(fields').type = words[1]
                      /\ Last(fields').name = words[2]
                      /\ Last(fields').lineNumber = line_number'
                      /\ enumValues' = enumValues
                /\ IsConstantLine(line) /\ pc' = "lines" =>
                      /\ fields' = fields
                      /\ DictKeys(enumValues')
                            = DictKeys(enumValues) \cup {words[2]}
                      /\ DictGet(enumValues', words[2]).line_number
                            = line_number'
                      /\ DictGet(enumValues', words[2]).type = words[1]
                      /\ \A n \in DictKeys(enumValues) \ {words[2]} :
                            DictGet(enumValues', n) = DictGet(enumValues, n)
                      /\ enums' = enums]_vars
    /\ [](pc = "lines" =>
            [i \in DOMAIN fields |-> fields[i].lineNumber]
                = FieldLineNumbers(read))

\* a header line, then the field line that ended the header, then a
\* constant: one field, of line 2, and one constant
C9_Witness ==
    /\ pc = "lines"
    /\ read = <<CommentLine, TabbedField, Constant>>
    /\ Len(fields) = 1
    /\ fields[1].lineNumber = 2
    /\ fields[1].name = <<"h">>
    /\ DictKeySeq(enumValues) = << <<"K">> >>

----------------------------------------------------------------------------
(* Properties of the annotation parser.                                    *)

\* a @range token without a comma: item[1] raises IndexError
IsBrokenRange(t) == IsRangeToken(t) /\ ~Contains(From(t, 6), ",")

\* the field line carries a metadata token that starts with '@' and is
\* none of @enum, @range, @invalid
HasUnknownTag(line) ==
    /\ IsFieldLine(line)
    /\ \E i \in DOMAIN MetadataTokens(line) :
          IsUnknownToken(MetadataTokens(line)[i])

\* the metadata tokens of a field line that are handled: those before the
\* first token that ends the run
HandledTokens(line) ==
    LET toks == MetadataTokens(line)
        stops == { i \in DOMAIN toks :
                      IsUnknownToken(toks[i]) \/ IsBrokenRange(toks[i]) }
    IN  IF ~IsFieldLine(line) \/ Len(DeclarationWords(line)) < 2 THEN <<>>
        ELSE IF stops = {} THEN toks
        ELSE SubSeq(toks, 1, (CHOOSE i \in stops : \A k \in stops : i <= k) - 1)

\* the unit tokens of a field line: the metadata tokens not starting with '@'
UnitTokens(line) == SelectSeq(MetadataTokens(line), IsUnitToken)

\* the process has ended before the end of the run
Aborted == pc \in {"exited", "crashed"}

\* C5: a field whose comment carries a metadata token that starts with '@'
\* and is none of @enum, @range, @invalid aborts the whole run at once: the
\* field is not appended, nothing happens afterwards (no line is
\* classified, no file parsed or rendered), the file is not rendered and
\* the files rendered before stay as they were.
C5_UnknownTagAborts ==
    /\ [][ReadStep /\ HasUnknownTag(Last(read')) =>
            /\ pc' \in {"exited", "crashed"}
            /\ fields' = fields
            /\ rendered' = rendered]_vars
    /\ [][Aborted => UNCHANGED vars]_vars
    /\ [](Aborted => rendered = [i \in 1..(msg_idx - 1) |-> i])

\* the second file of a run was ended by an unknown tag on its second line
C5_Witness ==
    /\ pc = "exited"
    /\ msg_idx = 2
    /\ rendered = <<1>>
    /\ read = <<GoodUnit, UnknownTag>>
    /\ Len(fields) = 1

====
